---- MODULE Spec2Model ----
(***************************************************************************)
(* The S3 integration test fixture BucketAndObjectOperationTest: its       *)
(* helpers (DeleteBucket, EmptyBucket, WaitFor...), its four test bodies   *)
(* and the fixture's SetUpTestCase / TearDownTestCase, run in gtest order  *)
(* against an eventually consistent object store.                          *)
(*                                                                         *)
(* The object store and the S3 client are not part of the sources; they    *)
(* are modelled from the specification (sections 3, 4, 6, 7, glossary).    *)
(*                                                                         *)
(* Beside it, two result parsers: GetDocumentationPartResult (API Gateway) *)
(* and DescribeSubscriptionFiltersResult (CloudWatch Logs), each with its  *)
(* own specification.                                                      *)
(***************************************************************************)
EXTENDS Integers, Sequences, FiniteSets, TLC

(***************************************************************************)
(* Bounds of the model.                                                    *)
(***************************************************************************)
\* Number of lines written into one part stream (the code writes 174763).
PartLines == 1
\* Number of calls of one run that may fail in transit (lost or corrupted).
MaxFaults == 1
\* Longest subscriptionFilters array of a payload.
MaxArray == 2
\* Longest list a DescribeSubscriptionFiltersResult is let grow to.
MaxFilters == 4

(***************************************************************************)
(* Program constants.                                                      *)
(***************************************************************************)
TIMEOUT_MAX == 10

CREATE_BUCKET_TEST_NAME == "awsnativesdkcreatebuckettestbucket"
PUT_OBJECTS_BUCKET_NAME == "awsnativesdkputobjectstestbucket"
PUT_MULTIPART_BUCKET_NAME == "awsnativesdkputobjectmultipartbucket"
ERRORS_TESTING_BUCKET == "awsnativesdkerrorsbucket"
TEST_OBJ_KEY == "TestObjectKey"
multipartKeyName == "MultiPartKey"
NonExistentBucket == "Non-Existent"
NonExistentKey == "non-Existent"

\* DateTime::CalculateGmtTimestampAsString("%Y%m%dT%H%M%SZ"), computed once.
TimeStamp == "20151124T101500Z"

CalculateBucketName(bucketPrefix) == bucketPrefix \o TimeStamp

FixtureBuckets ==
    << CalculateBucketName(CREATE_BUCKET_TEST_NAME),
       CalculateBucketName(PUT_OBJECTS_BUCKET_NAME),
       CalculateBucketName(PUT_MULTIPART_BUCKET_NAME),
       CalculateBucketName(ERRORS_TESTING_BUCKET) >>

Buckets == { FixtureBuckets[i] : i \in 1..4 } \cup { NonExistentBucket }
Keys == { TEST_OBJ_KEY, multipartKeyName, NonExistentKey }
PartNumbers == 1..3

(***************************************************************************)
(* Byte strings are sequences of character codes.                          *)
(***************************************************************************)
\* "Test Object"
TestObjectBody == << 84, 101, 115, 116, 32, 79, 98, 106, 101, 99, 116 >>

\* "Multi-Part upload Test Part "
PartLinePrefix ==
    << 77, 117, 108, 116, 105, 45, 80, 97, 114, 116, 32, 117, 112, 108, 111,
       97, 100, 32, 84, 101, 115, 116, 32, 80, 97, 114, 116, 32 >>

RECURSIVE Repeat(_, _)
Repeat(line, n) == IF n = 0 THEN << >> ELSE line \o Repeat(line, n - 1)

\* One line: the prefix, the part tag ("1", "2", "3"), ":" and std::endl.
PartLine(partTag) == PartLinePrefix \o << 48 + partTag, 58, 10 >>

Create5MbStreamForUploadPart(partTag) == Repeat(PartLine(partTag), PartLines)

(***************************************************************************)
(* HashingUtils.  The content hash is a polynomial checksum in place of    *)
(* MD5: h := 31 h + byte + 1 (mod 32749) over the bytes in order, from 7;  *)
(* deterministic, and sensitive to every byte and to the order of the      *)
(* bytes.  HashRange computes it by halves: the checksum of s[lo..hi] from *)
(* 0, and 31 to the power of the length.                                   *)
(***************************************************************************)
RECURSIVE HashRange(_, _, _)
HashRange(s, lo, hi) ==
    IF lo > hi THEN [ h |-> 0, p |-> 1 ]
    ELSE IF lo = hi THEN [ h |-> (s[lo] + 1) % 32749, p |-> 31 ]
    ELSE LET mid == (lo + hi) \div 2
             l == HashRange(s, lo, mid)
             r == HashRange(s, mid + 1, hi)
         IN [ h |-> (l.h * r.p + r.h) % 32749, p |-> (l.p * r.p) % 32749 ]

CalculateMD5(stream) ==
    LET x == HashRange(stream, 1, Len(stream))
        h == (7 * x.p + x.h) % 32749
    IN << h \div 256, h % 256 >>

HexDigit(d) == IF d < 10 THEN 48 + d ELSE 87 + d

RECURSIVE HexEncode(_)
HexEncode(buf) ==
    IF buf = << >> THEN << >>
    ELSE << HexDigit(Head(buf) \div 16), HexDigit(Head(buf) % 16) >>
         \o HexEncode(Tail(buf))

Base64Char(n) ==
    IF n < 26 THEN 65 + n
    ELSE IF n < 52 THEN 97 + (n - 26)
    ELSE IF n < 62 THEN 48 + (n - 52)
    ELSE IF n = 62 THEN 43 ELSE 47

RECURSIVE Base64Encode(_)
Base64Encode(buf) ==
    IF buf = << >> THEN << >>
    ELSE IF Len(buf) = 1 THEN
        << Base64Char(buf[1] \div 4), Base64Char((buf[1] % 4) * 16), 61, 61 >>
    ELSE IF Len(buf) = 2 THEN
        << Base64Char(buf[1] \div 4),
           Base64Char((buf[1] % 4) * 16 + buf[2] \div 16),
           Base64Char((buf[2] % 16) * 4), 61 >>
    ELSE
        << Base64Char(buf[1] \div 4),
           Base64Char((buf[1] % 4) * 16 + buf[2] \div 16),
           Base64Char((buf[2] % 16) * 4 + buf[3] \div 64),
           Base64Char(buf[3] % 64) >>
        \o Base64Encode(SubSeq(buf, 4, Len(buf)))

\* ss << "\"" << HexEncode(md5) << "\""
QuotedHex(md5) == << 34 >> \o HexEncode(md5) \o << 34 >>

(***************************************************************************)
(* Outcomes: success with a result, or failure with an error type.  The    *)
(* result of a failed outcome is the default constructed one.              *)
(***************************************************************************)
Failure(errorType) ==
    [ ok |-> FALSE, err |-> errorType, etag |-> << >>, body |-> << >>,
      list |-> {}, uploadId |-> 0, location |-> "" ]

Success == [ Failure("") EXCEPT !.ok = TRUE ]

(***************************************************************************)
(* The object store (section 6), eventually consistent (glossary): every   *)
(* bucket and object has the state the store has committed ("truth") and   *)
(* the state that requests observe ("view"); Propagate makes a committed   *)
(* change visible.                                                         *)
(***************************************************************************)
NoObject == [ exists |-> FALSE, data |-> << >> ]
Object(data) == [ exists |-> TRUE, data |-> data ]

NoUpload ==
    [ open |-> FALSE, id |-> 0, bucket |-> "", key |-> "",
      parts |-> [ n \in PartNumbers |-> NoObject ] ]

EmptyStore ==
    [ bktTruth |-> [ b \in Buckets |-> FALSE ],
      bktView |-> [ b \in Buckets |-> FALSE ],
      objTruth |-> [ b \in Buckets |-> [ k \in Keys |-> NoObject ] ],
      objView |-> [ b \in Buckets |-> [ k \in Keys |-> NoObject ] ],
      mpu |-> NoUpload,
      uploadIds |-> 0 ]

EntityTag(data) == QuotedHex(CalculateMD5(data))

\* A request that reads sees the bucket as it is visible; a request that
\* writes needs the bucket to exist and to be visible.
Readable(s, b) == s.bktView[b]
Writable(s, b) == s.bktView[b] /\ s.bktTruth[b]

\* The store validates the Content-MD5 header, when there is one, against
\* the bytes it received (section 4.1).
DigestOk(received, contentMD5) ==
    contentMD5 = << >> \/ contentMD5 = Base64Encode(CalculateMD5(received))

Unchanged(s, out) == [ out |-> out, store |-> s ]

HeadBucketOp(s, b) ==
    Unchanged(s, IF Readable(s, b) THEN Success ELSE Failure("NO_SUCH_BUCKET"))

CreateBucketOp(s, b) ==
    IF s.bktTruth[b] THEN Unchanged(s, Failure("BUCKET_ALREADY_OWNED_BY_YOU"))
    ELSE [ out |-> [ Success EXCEPT !.location = "/" \o b ],
           store |-> [ s EXCEPT !.bktTruth[b] = TRUE ] ]

DeleteBucketOp(s, b) ==
    IF ~s.bktTruth[b] THEN Unchanged(s, Failure("NO_SUCH_BUCKET"))
    ELSE IF \E k \in Keys : s.objTruth[b][k].exists
    THEN Unchanged(s, Failure("BUCKET_NOT_EMPTY"))
    ELSE [ out |-> Success, store |-> [ s EXCEPT !.bktTruth[b] = FALSE ] ]

ListBucketsOp(s) ==
    Unchanged(s, [ Success EXCEPT !.list = { b \in Buckets : s.bktView[b] } ])

ListObjectsOp(s, b) ==
    Unchanged(s,
        IF ~Readable(s, b) THEN Failure("NO_SUCH_BUCKET")
        ELSE [ Success EXCEPT
                 !.list = { k \in Keys : s.objView[b][k].exists } ])

PutObjectOp(s, b, k, received, contentMD5) ==
    IF ~Writable(s, b) THEN Unchanged(s, Failure("NO_SUCH_BUCKET"))
    ELSE IF ~DigestOk(received, contentMD5)
    THEN Unchanged(s, Failure("BAD_DIGEST"))
    ELSE [ out |-> [ Success EXCEPT !.etag = EntityTag(received) ],
           store |-> [ s EXCEPT !.objTruth[b][k] = Object(received) ] ]

\* Faulty variant: the key is looked up before the bucket.
GetObjectOpKeyFirst(s, b, k) ==
    Unchanged(s,
        IF ~s.objView[b][k].exists THEN Failure("NO_SUCH_KEY")
        ELSE IF ~Readable(s, b) THEN Failure("NO_SUCH_BUCKET")
        ELSE [ Success EXCEPT !.body = s.objView[b][k].data,
                              !.etag = EntityTag(s.objView[b][k].data) ])

GetObjectOp(s, b, k) ==
    Unchanged(s,
        IF ~Readable(s, b) THEN Failure("NO_SUCH_BUCKET")
        ELSE IF ~s.objView[b][k].exists THEN Failure("NO_SUCH_KEY")
        ELSE [ Success EXCEPT !.body = s.objView[b][k].data,
                              !.etag = EntityTag(s.objView[b][k].data) ])

HeadObjectOp(s, b, k) ==
    Unchanged(s,
        IF ~Readable(s, b) THEN Failure("NO_SUCH_BUCKET")
        ELSE IF ~s.objView[b][k].exists THEN Failure("NO_SUCH_KEY")
        ELSE [ Success EXCEPT !.etag = EntityTag(s.objView[b][k].data) ])

DeleteObjectOp(s, b, k) ==
    IF ~Writable(s, b) THEN Unchanged(s, Failure("NO_SUCH_BUCKET"))
    ELSE [ out |-> Success, store |-> [ s EXCEPT !.objTruth[b][k] = NoObject ] ]

CreateMultipartUploadOp(s, b, k) ==
    IF ~Writable(s, b) THEN Unchanged(s, Failure("NO_SUCH_BUCKET"))
    ELSE [ out |-> [ Success EXCEPT !.uploadId = s.uploadIds + 1 ],
           store |-> [ s EXCEPT !.uploadIds = s.uploadIds + 1,
                                !.mpu = [ NoUpload EXCEPT
                                            !.open = TRUE,
                                            !.id = s.uploadIds + 1,
                                            !.bucket = b, !.key = k ] ] ]

SessionFound(s, b, k, uploadId) ==
    /\ s.mpu.open
    /\ s.mpu.id = uploadId
    /\ s.mpu.bucket = b
    /\ s.mpu.key = k

UploadPartOp(s, b, k, uploadId, partNumber, received, contentMD5) ==
    IF ~Writable(s, b) THEN Unchanged(s, Failure("NO_SUCH_BUCKET"))
    ELSE IF ~SessionFound(s, b, k, uploadId)
    THEN Unchanged(s, Failure("NO_SUCH_UPLOAD"))
    ELSE IF ~DigestOk(received, contentMD5)
    THEN Unchanged(s, Failure("BAD_DIGEST"))
    ELSE [ out |-> [ Success EXCEPT !.etag = EntityTag(received) ],
           store |-> [ s EXCEPT !.mpu.parts[partNumber] = Object(received) ] ]

\* The manifest must reference exactly the parts that were uploaded, each
\* with the entity tag the store assigned (section 3); the object is the
\* parts in the order of the manifest (section 4.3).
ManifestValid(s, manifest) ==
    /\ manifest # << >>
    /\ \A i \in 1..Len(manifest) :
          /\ manifest[i].partNumber \in PartNumbers
          /\ s.mpu.parts[manifest[i].partNumber].exists
          /\ manifest[i].etag =
                EntityTag(s.mpu.parts[manifest[i].partNumber].data)
    /\ \A i, j \in 1..Len(manifest) :
          manifest[i].partNumber = manifest[j].partNumber => i = j
    /\ { manifest[i].partNumber : i \in 1..Len(manifest) }
          = { n \in PartNumbers : s.mpu.parts[n].exists }

RECURSIVE Assemble(_, _)
Assemble(parts, manifest) ==
    IF manifest = << >> THEN << >>
    ELSE parts[Head(manifest).partNumber].data \o Assemble(parts, Tail(manifest))

CompleteMultipartUploadOp(s, b, k, uploadId, manifest) ==
    IF ~Writable(s, b) THEN Unchanged(s, Failure("NO_SUCH_BUCKET"))
    ELSE IF ~SessionFound(s, b, k, uploadId)
    THEN Unchanged(s, Failure("NO_SUCH_UPLOAD"))
    ELSE IF ~ManifestValid(s, manifest)
    THEN Unchanged(s, Failure("INVALID_PART"))
    ELSE [ out |-> [ Success EXCEPT
                       !.etag = EntityTag(Assemble(s.mpu.parts, manifest)) ],
           store |-> [ s EXCEPT
                         !.objTruth[b][k] =
                             Object(Assemble(s.mpu.parts, manifest)),
                         !.mpu = NoUpload ] ]

(***************************************************************************)
(* The client: one request, and what may happen to it in transit           *)
(* (TransportError, section 7; corruption in transit, section 4.2).        *)
(***************************************************************************)
Request(op, b, k) ==
    [ op |-> op, bucket |-> b, key |-> k, body |-> << >>, contentMD5 |-> << >>,
      uploadId |-> 0, partNumber |-> 0, manifest |-> << >> ]

HasBody(req) == req.op \in { "PutObject", "UploadPart" }

\* Corruption in transit: the last byte arrives changed.
Corrupt(body) ==
    IF body = << >> THEN body
    ELSE [ body EXCEPT ![Len(body)] = (body[Len(body)] + 1) % 256 ]

StoreApply(s, req, received) ==
    CASE req.op = "HeadBucket" -> HeadBucketOp(s, req.bucket)
      [] req.op = "CreateBucket" -> CreateBucketOp(s, req.bucket)
      [] req.op = "DeleteBucket" -> DeleteBucketOp(s, req.bucket)
      [] req.op = "ListBuckets" -> ListBucketsOp(s)
      [] req.op = "ListObjects" -> ListObjectsOp(s, req.bucket)
      [] req.op = "PutObject" ->
            PutObjectOp(s, req.bucket, req.key, received, req.contentMD5)
      [] req.op = "GetObject" -> GetObjectOp(s, req.bucket, req.key)
      [] req.op = "HeadObject" -> HeadObjectOp(s, req.bucket, req.key)
      [] req.op = "DeleteObject" -> DeleteObjectOp(s, req.bucket, req.key)
      [] req.op = "CreateMultipartUpload" ->
            CreateMultipartUploadOp(s, req.bucket, req.key)
      [] req.op = "UploadPart" ->
            UploadPartOp(s, req.bucket, req.key, req.uploadId, req.partNumber,
                         received, req.contentMD5)
      [] req.op = "CompleteMultipartUpload" ->
            CompleteMultipartUploadOp(s, req.bucket, req.key, req.uploadId,
                                      req.manifest)

TransitFaults(req, nFaults) ==
    { "none" }
      \cup (IF nFaults < MaxFaults THEN { "transport" } ELSE {})
      \cup (IF nFaults < MaxFaults /\ HasBody(req) THEN { "corrupt" } ELSE {})

\* Every way one request can end: the outcome, the store after it, and what
\* happened in transit.
Send(s, req, nFaults) ==
    { [ fault |-> f,
        faults |-> IF f = "none" THEN nFaults ELSE nFaults + 1,
        out |-> IF f = "transport" THEN Failure("NETWORK_CONNECTION")
                ELSE StoreApply(s, req,
                       IF f = "corrupt" THEN Corrupt(req.body) ELSE req.body).out,
        store |-> IF f = "transport" THEN s
                  ELSE StoreApply(s, req,
                         IF f = "corrupt" THEN Corrupt(req.body) ELSE req.body).store ]
      : f \in TransitFaults(req, nFaults) }

(***************************************************************************)
(* The state of the run.                                                   *)
(***************************************************************************)
VARIABLES
    store,              \* the object store
    faults,             \* requests that failed in transit so far
    pc,                 \* where the main thread is
    stack,              \* return addresses of the helpers being run
    test,               \* the TEST_F being run (1..4), 0 outside the tests
    fixtureIdx,         \* next DeleteBucket of SetUpTestCase / TearDownTestCase
    bucketName,         \* fullBucketName / bucketName of the running frames
    objectKey,          \* objectKey of WaitForObjectToPropagate
    timeoutCount,       \* timeoutCount / checkForObjectsCount of the loops
    retval,             \* value returned by the last WaitFor... helper
    pollResults,        \* what each round of the running polling loop saw
    toDelete,           \* EmptyBucket: listed objects not yet deleted
    outcome,            \* outcome of the main thread's last request
    last,               \* the last request sent, and what it met
    asserts,            \* lines of the assertions that failed in the running
                        \* test body or fixture DeleteBucket
    db,                 \* DeleteBucket: requests sent by the running call
    getObjectOutcome,   \* getObjectOutcome of the test body
    foundBucket,        \* TestBucketCreationAndListing: foundBucket
    bucketHeadSucceeded,\* TestBucketCreationAndListing: bucketHeadSucceeded
    uploadId,           \* createMultipartUploadOutcome.GetResult().GetUploadId()
    callable,           \* uploadPartOutcomeCallable1..3
    uploadPartOutcome,  \* uploadPartOutcome1..3
    completedPart,      \* completedPart1..3
    mpLog,              \* multipart test: what the main thread did, in order
    doneOrder,          \* part uploads in the order the tasks finished
    file,               \* DownloadTestFile on disk
    fileContents,       \* fileContents read back from the file
    getDocumentationPartResult,
                        \* a GetDocumentationPartResult object
    describeSubscriptionFiltersResult,
                        \* a DescribeSubscriptionFiltersResult object
    assignedDocumentationPart,
                        \* the last payload given to the former, and the
                        \* object as it was before
    assignedSubscriptionFilters
                        \* the same for the latter

storeVars == << store, faults, last >>
ctlVars == << pc, stack, test, fixtureIdx >>
helperVars == << bucketName, objectKey, timeoutCount, retval, pollResults,
                toDelete >>
t1Vars == << foundBucket, bucketHeadSucceeded >>
t3Vars == << uploadId, callable, uploadPartOutcome, completedPart, mpLog,
             doneOrder, file, fileContents >>
resultVars == << getDocumentationPartResult, describeSubscriptionFiltersResult,
                assignedDocumentationPart, assignedSubscriptionFilters >>
testVars == << store, faults, pc, stack, test, fixtureIdx, bucketName,
              objectKey, timeoutCount, retval, pollResults, toDelete, outcome,
              last, asserts, db, getObjectOutcome, foundBucket,
              bucketHeadSucceeded, uploadId, callable, uploadPartOutcome,
              completedPart, mpLog, doneOrder, file, fileContents >>
vars == << store, faults, pc, stack, test, fixtureIdx, bucketName, objectKey,
           timeoutCount, retval, pollResults, toDelete, outcome, last, asserts, db,
           getObjectOutcome, foundBucket, bucketHeadSucceeded, uploadId,
           callable, uploadPartOutcome, completedPart, mpLog, doneOrder, file,
           fileContents, getDocumentationPartResult,
           describeSubscriptionFiltersResult, assignedDocumentationPart,
           assignedSubscriptionFilters >>

(***************************************************************************)
(* Result objects of the API Gateway and CloudWatch Logs clients, and the  *)
(* JSON payloads they are assigned from.  The JSON primitives and the      *)
(* member classes are not part of the sources.                             *)
(***************************************************************************)
\* A JSON object is a function from the keys it holds to JSON values.
JsonString(s) == [ kind |-> "string", value |-> s ]
JsonObject(members) == [ kind |-> "object", value |-> members ]
JsonArray(items) == [ kind |-> "array", value |-> items ]

ValueExists(jsonValue, key) == key \in DOMAIN jsonValue.value
GetString(jsonValue, key) == jsonValue.value[key].value
GetObject(jsonValue, key) == jsonValue.value[key]
GetArray(jsonValue, key) == jsonValue.value[key].value

\* Objects over some of the keys, each key with one of its values.
JsonObjects(values) ==
    { JsonObject(m) :
        m \in UNION { [ K -> UNION { values[k] : k \in K } ] :
                        K \in SUBSET DOMAIN values } }

WellTyped(jsonValue, values) ==
    \A k \in DOMAIN jsonValue.value : jsonValue.value[k] \in values[k]

SeqsUpTo(S, n) == UNION { [ 1..k -> S ] : k \in 0..n }

\* DocumentationPartLocation: its operator= from a JSON object.
DocumentationPartLocation(jsonValue) ==
    [ type |-> IF ValueExists(jsonValue, "type")
               THEN GetString(jsonValue, "type") ELSE "NOT_SET",
      path |-> IF ValueExists(jsonValue, "path")
               THEN GetString(jsonValue, "path") ELSE "" ]

\* SubscriptionFilter: its operator= from a JSON object.
SubscriptionFilter(jsonValue) ==
    [ filterName |-> IF ValueExists(jsonValue, "filterName")
                     THEN GetString(jsonValue, "filterName") ELSE "" ]

LocationValues ==
    [ type |-> { JsonString("API") }, path |-> { JsonString("/pets") } ]
LocationObjects ==
    { o \in JsonObjects(LocationValues) : WellTyped(o, LocationValues) }

DocumentationPartValues ==
    [ id |-> { JsonString("p1"), JsonString("p2") },
      location |-> LocationObjects,
      properties |-> { JsonString("{}"), JsonString("{d}") } ]
\* result.GetPayload() of a GetDocumentationPart call
DocumentationPartPayloads ==
    { o \in JsonObjects(DocumentationPartValues) :
        WellTyped(o, DocumentationPartValues) }

FilterObjects ==
    { JsonObject([ filterName |-> JsonString(s) ]) : s \in { "f1", "f2" } }
SubscriptionFiltersValues ==
    [ subscriptionFilters |->
          { JsonArray(a) : a \in SeqsUpTo(FilterObjects, MaxArray) },
      nextToken |-> { JsonString("t1"), JsonString("t2") } ]
\* result.GetPayload() of a DescribeSubscriptionFilters call
SubscriptionFiltersPayloads ==
    { o \in JsonObjects(SubscriptionFiltersValues) :
        WellTyped(o, SubscriptionFiltersValues) }

\* GetDocumentationPartResult::GetDocumentationPartResult()
DefaultGetDocumentationPartResult ==
    [ m_id |-> "",
      m_location |-> [ type |-> "NOT_SET", path |-> "" ],
      m_properties |-> "" ]

\* GetDocumentationPartResult::operator =(result)
\* Faulty variant: a member whose key is absent is reset.
GetDocumentationPartResultAssignResetting(self, jsonValue) ==
    [ m_id |-> IF ValueExists(jsonValue, "id")
               THEN GetString(jsonValue, "id") ELSE "",
      m_location |-> IF ValueExists(jsonValue, "location")
                     THEN DocumentationPartLocation(GetObject(jsonValue, "location"))
                     ELSE [ type |-> "NOT_SET", path |-> "" ],
      m_properties |-> IF ValueExists(jsonValue, "properties")
                       THEN GetString(jsonValue, "properties") ELSE "" ]
GetDocumentationPartResultAssign(self, jsonValue) ==
    [ m_id |-> IF ValueExists(jsonValue, "id")
               THEN GetString(jsonValue, "id") ELSE self.m_id,
      m_location |-> IF ValueExists(jsonValue, "location")
                     THEN DocumentationPartLocation(GetObject(jsonValue, "location"))
                     ELSE self.m_location,
      m_properties |-> IF ValueExists(jsonValue, "properties")
                       THEN GetString(jsonValue, "properties")
                       ELSE self.m_properties ]

\* DescribeSubscriptionFiltersResult::DescribeSubscriptionFiltersResult()
DefaultDescribeSubscriptionFiltersResult ==
    [ m_subscriptionFilters |-> << >>, m_nextToken |-> "" ]

\* for (...) m_subscriptionFilters.push_back(list[index].AsObject())
RECURSIVE PushBackAll(_, _)
PushBackAll(list, jsonList) ==
    IF jsonList = << >> THEN list
    ELSE PushBackAll(Append(list, SubscriptionFilter(Head(jsonList))),
                     Tail(jsonList))

\* DescribeSubscriptionFiltersResult::operator =(result)
DescribeSubscriptionFiltersResultAssign(self, jsonValue) ==
    [ m_subscriptionFilters |->
          IF ValueExists(jsonValue, "subscriptionFilters")
          THEN PushBackAll(self.m_subscriptionFilters,
                           GetArray(jsonValue, "subscriptionFilters"))
          ELSE self.m_subscriptionFilters,
      m_nextToken |-> IF ValueExists(jsonValue, "nextToken")
                      THEN GetString(jsonValue, "nextToken")
                      ELSE self.m_nextToken ]

NoAssignment == [ done |-> FALSE ]

NoOutcome == Failure("NOT_SET")
NoRequest ==
    [ op |-> "", bucket |-> "", key |-> "", fault |-> "none",
      bucketVisible |-> FALSE, keyVisible |-> FALSE, out |-> NoOutcome ]
NoCallable == [ state |-> "none", req |-> Request("", "", ""), out |-> NoOutcome ]
NoFile == [ exists |-> FALSE, data |-> << >> ]
NoDeleteBucket ==
    [ active |-> FALSE, heads |-> 0, lists |-> 0, listed |-> 0,
      objectDeletes |-> 0,
      bucketDeletes |-> 0, headsAfterDelete |-> 0, headOk |-> FALSE,
      emptySeen |-> FALSE, entry |-> EmptyStore ]

Init ==
    /\ store = EmptyStore
    /\ faults = 0
    /\ pc = "SetUpTestCase"
    /\ stack = << >>
    /\ test = 0
    /\ fixtureIdx = 1
    /\ bucketName = ""
    /\ objectKey = ""
    /\ timeoutCount = 0
    /\ retval = FALSE
    /\ pollResults = << >>
    /\ toDelete = << >>
    /\ outcome = NoOutcome
    /\ last = NoRequest
    /\ asserts = {}
    /\ db = NoDeleteBucket
    /\ getObjectOutcome = NoOutcome
    /\ foundBucket = FALSE
    /\ bucketHeadSucceeded = FALSE
    /\ uploadId = 0
    /\ callable = [ n \in PartNumbers |-> NoCallable ]
    /\ uploadPartOutcome = [ n \in PartNumbers |-> NoOutcome ]
    /\ completedPart = [ n \in PartNumbers |-> << >> ]
    /\ mpLog = << >>
    /\ doneOrder = << >>
    /\ file = NoFile
    /\ fileContents = << >>
    /\ getDocumentationPartResult = DefaultGetDocumentationPartResult
    /\ describeSubscriptionFiltersResult =
           DefaultDescribeSubscriptionFiltersResult
    /\ assignedDocumentationPart = NoAssignment
    /\ assignedSubscriptionFilters = NoAssignment

(***************************************************************************)
(* Sending a request from the main thread.                                 *)
(***************************************************************************)
Met(s, req, r) ==
    [ op |-> req.op, bucket |-> req.bucket, key |-> req.key, fault |-> r.fault,
      bucketVisible |-> req.bucket \in Buckets /\ s.bktView[req.bucket],
      keyVisible |-> /\ req.bucket \in Buckets
                     /\ req.key \in Keys
                     /\ s.objView[req.bucket][req.key].exists,
      out |-> r.out ]

\* The request ends as r: the store, the outcome the caller holds.
Reply(req, r) ==
    /\ store' = r.store
    /\ faults' = r.faults
    /\ outcome' = r.out
    /\ last' = Met(store, req, r)

\* Calling a helper from label ret, and returning from it.
Call(entry, ret) == pc' = entry /\ stack' = << ret >> \o stack
Return == pc' = Head(stack) /\ stack' = Tail(stack)

\* A fatal assertion failed at a line of the test body: the body returns.
Fatal(line) == asserts' = asserts \cup { line } /\ pc' = "TestEnd"

\* The eventual-consistency window closes for one bucket or one object.
\* Only a request that names the bucket can tell when it closed, so the
\* moment is chosen while the run works on that bucket (or lists them all).
Observed(b) == b = bucketName \/ pc = "T1_ListBuckets"

PropagateBucket(b) ==
    /\ Observed(b)
    /\ store.bktView[b] # store.bktTruth[b]
    /\ store' = [ store EXCEPT !.bktView[b] = store.bktTruth[b] ]
    /\ UNCHANGED << faults, last, ctlVars, helperVars, outcome, asserts, db,
                    getObjectOutcome, t1Vars, t3Vars >>
    /\ UNCHANGED resultVars

PropagateObject(b, k) ==
    /\ Observed(b)
    /\ store.objView[b][k] # store.objTruth[b][k]
    /\ store' = [ store EXCEPT !.objView[b][k] = store.objTruth[b][k] ]
    /\ UNCHANGED << faults, last, ctlVars, helperVars, outcome, asserts, db,
                    getObjectOutcome, t1Vars, t3Vars >>
    /\ UNCHANGED resultVars

Propagate ==
    \/ \E b \in Buckets : PropagateBucket(b)
    \/ \E b \in Buckets, k \in Keys : PropagateObject(b, k)

(***************************************************************************)
(* SetUpTestCase and TearDownTestCase: DeleteBucket of the four buckets.   *)
(***************************************************************************)
FixtureDeleteBucket ==
    /\ pc \in { "SetUpTestCase", "TearDownTestCase" }
    /\ fixtureIdx <= Len(FixtureBuckets)
    /\ bucketName' = FixtureBuckets[fixtureIdx]
    /\ fixtureIdx' = fixtureIdx + 1
    /\ db' = [ NoDeleteBucket EXCEPT !.active = TRUE, !.entry = store ]
    /\ asserts' = {}
    /\ Call("DeleteBucket", pc)
    /\ UNCHANGED << storeVars, test, objectKey, timeoutCount, retval,
                    pollResults, toDelete, outcome, getObjectOutcome, t1Vars,
                    t3Vars >>
    /\ UNCHANGED resultVars

SetUpTestCaseDone ==
    /\ pc = "SetUpTestCase"
    /\ fixtureIdx > Len(FixtureBuckets)
    /\ pc' = "TestBegin"
    /\ test' = 1
    /\ fixtureIdx' = 1
    /\ asserts' = {}
    /\ outcome' = NoOutcome
    /\ last' = NoRequest
    /\ UNCHANGED << store, faults, stack, helperVars, db, getObjectOutcome,
                    t1Vars, t3Vars >>
    /\ UNCHANGED resultVars

TearDownTestCaseDone ==
    /\ pc = "TearDownTestCase"
    /\ fixtureIdx > Len(FixtureBuckets)
    /\ pc' = "Done"
    /\ UNCHANGED << storeVars, stack, test, fixtureIdx, helperVars, outcome,
                    asserts, db, getObjectOutcome, t1Vars, t3Vars >>
    /\ UNCHANGED resultVars

(***************************************************************************)
(* The polling loops: while (timeoutCount++ < TIMEOUT_MAX).                *)
(***************************************************************************)
\* Faulty variant: <= in place of <, one round too many.
WaitLoopContinuesOnceMore(count) == count <= TIMEOUT_MAX
WaitLoopContinues(count) == count < TIMEOUT_MAX

(***************************************************************************)
(* DeleteBucket, EmptyBucket, WaitForBucketToEmpty.                        *)
(***************************************************************************)
Count(field) == IF db.active THEN [ db EXCEPT ![field] = @ + 1 ] ELSE db

\* if (bucketOutcome.IsSuccess())
\* Faulty variant: the outcome of the head request is not looked at.
DeleteBucketProceedsAlways(bucketOutcome) == TRUE
DeleteBucketProceeds(bucketOutcome) == bucketOutcome.ok

\* GetContents(): the keys of the listing, in the order the store lists them.
KeyOrder == << multipartKeyName, TEST_OBJ_KEY, NonExistentKey >>
GetContents(listing) == SelectSeq(KeyOrder, LAMBDA k : k \in listing)

DeleteBucketHead ==
    /\ pc = "DeleteBucket"
    /\ \E r \in Send(store, Request("HeadBucket", bucketName, ""), faults) :
         /\ Reply(Request("HeadBucket", bucketName, ""), r)
         /\ db' = [ Count("heads") EXCEPT
                     !.headOk = r.out.ok,
                     !.headsAfterDelete =
                         IF db.bucketDeletes > 0 THEN @ + 1 ELSE @ ]
         /\ pc' = IF DeleteBucketProceeds(r.out) THEN "EmptyBucket"
                  ELSE "DeleteBucketReturn"
    /\ UNCHANGED << stack, test, fixtureIdx, helperVars, asserts,
                    getObjectOutcome, t1Vars, t3Vars >>
    /\ UNCHANGED resultVars

EmptyBucketList ==
    /\ pc = "EmptyBucket"
    /\ \E r \in Send(store, Request("ListObjects", bucketName, ""), faults) :
         /\ Reply(Request("ListObjects", bucketName, ""), r)
         /\ toDelete' = IF r.out.ok THEN GetContents(r.out.list) ELSE << >>
         /\ db' = [ Count("lists") EXCEPT
                     !.listed = IF db.active /\ r.out.ok
                                THEN Cardinality(r.out.list) ELSE 0 ]
    /\ pc' = "EmptyBucketLoop"
    /\ UNCHANGED << stack, test, fixtureIdx, bucketName, objectKey,
                    timeoutCount, retval, pollResults, asserts,
                    getObjectOutcome, t1Vars, t3Vars >>
    /\ UNCHANGED resultVars

EmptyBucketDelete ==
    /\ pc = "EmptyBucketLoop"
    /\ toDelete # << >>
    /\ \E r \in Send(store, Request("DeleteObject", bucketName, Head(toDelete)),
                     faults) :
         Reply(Request("DeleteObject", bucketName, Head(toDelete)), r)
    /\ toDelete' = Tail(toDelete)
    /\ db' = Count("objectDeletes")
    /\ UNCHANGED << ctlVars, bucketName, objectKey, timeoutCount, retval,
                    pollResults, asserts, getObjectOutcome, t1Vars, t3Vars >>
    /\ UNCHANGED resultVars

\* EmptyBucket returns; DeleteBucket calls WaitForBucketToEmpty.
EmptyBucketReturn ==
    /\ pc = "EmptyBucketLoop"
    /\ toDelete = << >>
    /\ timeoutCount' = 0
    /\ pollResults' = << >>
    /\ Call("WaitForBucketToEmpty", "DeleteBucketRequest")
    /\ UNCHANGED << storeVars, test, fixtureIdx, bucketName, objectKey, retval,
                    toDelete, outcome, asserts, db, getObjectOutcome, t1Vars,
                    t3Vars >>
    /\ UNCHANGED resultVars

\* The loop goes on after a listing that succeeded and showed objects.
\* Faulty variant: the break on an empty listing is missing.
WaitForBucketToEmptyGoesOnWhenEmpty(listObjectsOutcome) ==
    listObjectsOutcome.ok
WaitForBucketToEmptyGoesOn(listObjectsOutcome) ==
    listObjectsOutcome.ok /\ listObjectsOutcome.list # {}

\* One round of the loop: the listing, ASSERT_TRUE on it (which returns from
\* the helper only), and the break on an empty listing.
WaitForBucketToEmptyPoll ==
    /\ pc = "WaitForBucketToEmpty"
    /\ WaitLoopContinues(timeoutCount)
    /\ timeoutCount' = timeoutCount + 1
    /\ \E r \in Send(store, Request("ListObjects", bucketName, ""), faults) :
         /\ Reply(Request("ListObjects", bucketName, ""), r)
         /\ asserts' = IF r.out.ok THEN asserts ELSE asserts \cup { 218 }
         /\ pc' = IF WaitForBucketToEmptyGoesOn(r.out) THEN "WaitForBucketToEmpty"
                  ELSE "WaitForBucketToEmptyReturn"
         /\ db' = IF db.active
                  THEN [ db EXCEPT !.emptySeen = r.out.ok /\ r.out.list = {} ]
                  ELSE db
         /\ pollResults' = Append(pollResults,
                               IF ~r.out.ok THEN "failed"
                               ELSE IF r.out.list = {} THEN "empty"
                               ELSE "objects")
    /\ UNCHANGED << stack, test, fixtureIdx, bucketName, objectKey, retval,
                    toDelete, getObjectOutcome, t1Vars, t3Vars >>
    /\ UNCHANGED resultVars

WaitForBucketToEmptyExhausted ==
    /\ pc = "WaitForBucketToEmpty"
    /\ ~WaitLoopContinues(timeoutCount)
    /\ timeoutCount' = timeoutCount + 1
    /\ pc' = "WaitForBucketToEmptyReturn"
    /\ UNCHANGED << storeVars, stack, test, fixtureIdx, bucketName, objectKey,
                    retval, pollResults, toDelete, outcome, asserts, db, getObjectOutcome,
                    t1Vars, t3Vars >>
    /\ UNCHANGED resultVars

WaitForBucketToEmptyReturn ==
    /\ pc = "WaitForBucketToEmptyReturn"
    /\ Return
    /\ timeoutCount' = 0
    /\ pollResults' = << >>
    /\ outcome' = NoOutcome
    /\ last' = NoRequest
    /\ UNCHANGED << store, faults, test, fixtureIdx, bucketName, objectKey,
                    retval, toDelete, asserts, db, getObjectOutcome, t1Vars,
                    t3Vars >>
    /\ UNCHANGED resultVars

\* ASSERT_TRUE(deleteBucketOutcome.IsSuccess()) is the last statement of
\* DeleteBucket: whatever the outcome, the function ends there.
\* Faulty variant: the function goes back to its head request.
AfterDeleteBucketRequestPolls == "DeleteBucket"
AfterDeleteBucketRequest == "DeleteBucketReturn"

DeleteBucketRequest ==
    /\ pc = "DeleteBucketRequest"
    /\ \E r \in Send(store, Request("DeleteBucket", bucketName, ""), faults) :
         /\ Reply(Request("DeleteBucket", bucketName, ""), r)
         /\ asserts' = IF r.out.ok THEN asserts ELSE asserts \cup { 246 }
    /\ db' = Count("bucketDeletes")
    /\ pc' = AfterDeleteBucketRequest
    /\ UNCHANGED << stack, test, fixtureIdx, helperVars, getObjectOutcome,
                    t1Vars, t3Vars >>
    /\ UNCHANGED resultVars

DeleteBucketReturn ==
    /\ pc = "DeleteBucketReturn"
    /\ Return
    /\ bucketName' = ""
    /\ db' = NoDeleteBucket
    /\ outcome' = NoOutcome
    /\ last' = NoRequest
    /\ UNCHANGED << store, faults, test, fixtureIdx, objectKey, timeoutCount,
                    retval, pollResults, toDelete, asserts, getObjectOutcome,
                    t1Vars, t3Vars >>
    /\ UNCHANGED resultVars

(***************************************************************************)
(* WaitForBucketToPropagate, WaitForObjectToPropagate.                     *)
(***************************************************************************)
\* The callers that use the value a WaitFor... helper returns.
CheckedReturns == { "T1_AssertPropagated", "T2_AssertObjectPropagated" }

CallWait(entry, ret, key) ==
    /\ Call(entry, ret)
    /\ timeoutCount' = 0
    /\ pollResults' = << >>
    /\ objectKey' = key

WaitRequest ==
    IF pc = "WaitForBucketToPropagate"
    THEN Request("HeadBucket", bucketName, "")
    ELSE Request("HeadObject", bucketName, objectKey)

\* One round: the head request; return true when it succeeded, else sleep.
WaitPoll ==
    /\ pc \in { "WaitForBucketToPropagate", "WaitForObjectToPropagate" }
    /\ WaitLoopContinues(timeoutCount)
    /\ timeoutCount' = timeoutCount + 1
    /\ \E r \in Send(store, WaitRequest, faults) :
         /\ Reply(WaitRequest, r)
         /\ pollResults' = Append(pollResults, IF r.out.ok THEN "ok" ELSE "failed")
         /\ retval' = r.out.ok
         /\ pc' = IF r.out.ok THEN "WaitReturn" ELSE pc
    /\ UNCHANGED << stack, test, fixtureIdx, bucketName, objectKey, toDelete,
                    asserts, db, getObjectOutcome, t1Vars, t3Vars >>
    /\ UNCHANGED resultVars

\* The loop ran out of rounds: return false.
WaitExhausted ==
    /\ pc \in { "WaitForBucketToPropagate", "WaitForObjectToPropagate" }
    /\ ~WaitLoopContinues(timeoutCount)
    /\ timeoutCount' = timeoutCount + 1
    /\ retval' = FALSE
    /\ pc' = "WaitReturn"
    /\ UNCHANGED << storeVars, stack, test, fixtureIdx, bucketName, objectKey,
                    pollResults, toDelete, outcome, asserts, db,
                    getObjectOutcome, t1Vars, t3Vars >>
    /\ UNCHANGED resultVars

\* The helper's locals are gone; the value returned is dropped unless the
\* caller uses it.
WaitReturn ==
    /\ pc = "WaitReturn"
    /\ Return
    /\ timeoutCount' = 0
    /\ pollResults' = << >>
    /\ objectKey' = ""
    /\ retval' = IF Head(stack) \in CheckedReturns THEN retval ELSE FALSE
    /\ outcome' = NoOutcome
    /\ last' = NoRequest
    /\ UNCHANGED << store, faults, test, fixtureIdx, bucketName, toDelete,
                    asserts, db, getObjectOutcome, t1Vars, t3Vars >>
    /\ UNCHANGED resultVars

(***************************************************************************)
(* The test bodies.  A failed ASSERT_ of a body ends the body.             *)
(***************************************************************************)
FirstLabel ==
    << "T1_HeadBucket", "T2_CreateBucket", "T3_CreateBucket", "T4_ListObjects" >>

TestBegin ==
    /\ pc = "TestBegin"
    /\ bucketName' = FixtureBuckets[test]
    /\ pc' = FirstLabel[test]
    /\ UNCHANGED << storeVars, stack, test, fixtureIdx, objectKey, timeoutCount,
                    retval, pollResults, toDelete, outcome, asserts, db,
                    getObjectOutcome, t1Vars, t3Vars >>
    /\ UNCHANGED resultVars

\* The body returned: its locals are gone; the next test, or the tear down.
TestEnd ==
    /\ pc = "TestEnd"
    /\ IF test < Len(FirstLabel)
       THEN pc' = "TestBegin" /\ test' = test + 1
       ELSE pc' = "TearDownTestCase" /\ test' = 0
    /\ bucketName' = ""
    /\ retval' = FALSE
    /\ outcome' = NoOutcome
    /\ last' = NoRequest
    /\ asserts' = {}
    /\ getObjectOutcome' = NoOutcome
    /\ foundBucket' = FALSE
    /\ bucketHeadSucceeded' = FALSE
    /\ uploadId' = 0
    /\ callable' = [ n \in PartNumbers |-> NoCallable ]
    /\ uploadPartOutcome' = [ n \in PartNumbers |-> NoOutcome ]
    /\ completedPart' = [ n \in PartNumbers |-> << >> ]
    /\ mpLog' = << >>
    /\ doneOrder' = << >>
    /\ fileContents' = << >>
    /\ UNCHANGED << store, faults, stack, fixtureIdx, objectKey, timeoutCount,
                    pollResults, toDelete, db, file >>
    /\ UNCHANGED resultVars

\* The first assertion of a list of (failed, line) pairs that fails, or 0.
RECURSIVE FirstFailed(_)
FirstFailed(checks) ==
    IF checks = << >> THEN 0
    ELSE IF Head(checks)[1] THEN Head(checks)[2]
    ELSE FirstFailed(Tail(checks))

\* Either a fatal assertion fails, or the body goes on at label next.
Continue(line, next) ==
    IF line # 0 THEN Fatal(line) ELSE asserts' = asserts /\ pc' = next

\* Either a fatal assertion fails, or the body calls a WaitFor... helper.
ContinueWait(line, entry, ret, key) ==
    IF line # 0
    THEN Fatal(line) /\ UNCHANGED << stack, timeoutCount, pollResults, objectKey >>
    ELSE asserts' = asserts /\ CallWait(entry, ret, key)

\* createBucketRequest ... ASSERT_TRUE(IsSuccess), ASSERT location not empty,
\* WaitForBucketToPropagate(fullBucketName)
CreateBucketAndWait(label, okLine, locationLine, ret) ==
    /\ pc = label
    /\ \E r \in Send(store, Request("CreateBucket", bucketName, ""), faults) :
         /\ Reply(Request("CreateBucket", bucketName, ""), r)
         /\ ContinueWait(FirstFailed(<< << ~r.out.ok, okLine >>,
                                        << r.out.location = "", locationLine >> >>),
                         "WaitForBucketToPropagate", ret, "")
    /\ UNCHANGED << test, fixtureIdx, bucketName, retval, toDelete, db,
                    getObjectOutcome, t1Vars, t3Vars >>

(***************************************************************************)
(* TEST_F(BucketAndObjectOperationTest, TestBucketCreationAndListing)      *)
(***************************************************************************)
T1_HeadBucket ==
    /\ pc = "T1_HeadBucket"
    /\ \E r \in Send(store, Request("HeadBucket", bucketName, ""), faults) :
         /\ Reply(Request("HeadBucket", bucketName, ""), r)
         /\ Continue(IF r.out.ok THEN 266 ELSE 0, "T1_CreateBucket")
    /\ UNCHANGED << stack, test, fixtureIdx, helperVars, db, getObjectOutcome,
                    t1Vars, t3Vars >>
    /\ UNCHANGED resultVars

T1_CreateBucket ==
    /\ CreateBucketAndWait("T1_CreateBucket", 273, 275, "T1_AssertPropagated")
    /\ UNCHANGED resultVars

\* ASSERT_TRUE(WaitForBucketToPropagate(fullBucketName))
\* Faulty variant: the value returned is not asserted.
BucketPropagatedUnchecked(result) == TRUE
BucketPropagated(result) == result

T1_AssertPropagated ==
    /\ pc = "T1_AssertPropagated"
    /\ Continue(IF BucketPropagated(retval) THEN 0 ELSE 276, "T1_ListBuckets")
    /\ retval' = FALSE
    /\ UNCHANGED << storeVars, stack, test, fixtureIdx, bucketName, objectKey,
                    timeoutCount, pollResults, toDelete, outcome, db,
                    getObjectOutcome, t1Vars, t3Vars >>
    /\ UNCHANGED resultVars

T1_ListBuckets ==
    /\ pc = "T1_ListBuckets"
    /\ \E r \in Send(store, Request("ListBuckets", "", ""), faults) :
         /\ Reply(Request("ListBuckets", "", ""), r)
         /\ foundBucket' = (r.out.ok /\ bucketName \in r.out.list)
         /\ Continue(FirstFailed(<< << ~r.out.ok, 279 >>,
                                    << Cardinality(r.out.list) < 1, 280 >>,
                                    << bucketName \notin r.out.list, 292 >> >>),
                     "T1_DeleteBucket")
    /\ UNCHANGED << stack, test, fixtureIdx, helperVars, db, getObjectOutcome,
                    bucketHeadSucceeded, t3Vars >>
    /\ UNCHANGED resultVars

T1_DeleteBucket ==
    /\ pc = "T1_DeleteBucket"
    /\ \E r \in Send(store, Request("DeleteBucket", bucketName, ""), faults) :
         /\ Reply(Request("DeleteBucket", bucketName, ""), r)
         /\ Continue(IF r.out.ok THEN 0 ELSE 297, "T1_HeadBucketAgain")
    /\ UNCHANGED << stack, test, fixtureIdx, helperVars, db, getObjectOutcome,
                    t1Vars, t3Vars >>
    /\ UNCHANGED resultVars

\* headBucketOutcome = Client->HeadBucket(...) before the loop; then
\* timeoutCount = 0, bucketHeadSucceeded(true).
T1_HeadBucketAgain ==
    /\ pc = "T1_HeadBucketAgain"
    /\ \E r \in Send(store, Request("HeadBucket", bucketName, ""), faults) :
         Reply(Request("HeadBucket", bucketName, ""), r)
    /\ timeoutCount' = 0
    /\ pollResults' = << >>
    /\ bucketHeadSucceeded' = TRUE
    /\ pc' = "T1_PollAbsent"
    /\ UNCHANGED << stack, test, fixtureIdx, bucketName, objectKey, retval,
                    toDelete, asserts, db, getObjectOutcome, foundBucket,
                    t3Vars >>
    /\ UNCHANGED resultVars

\* if (!headBucketOutcome.IsSuccess()) { bucketHeadSucceeded = false; break; }
\* Faulty variant: the test of the outcome is inverted.
AbsentObservedInverted(headBucketOutcome) == headBucketOutcome.ok
AbsentObserved(headBucketOutcome) == ~headBucketOutcome.ok

T1_PollAbsent ==
    /\ pc = "T1_PollAbsent"
    /\ WaitLoopContinues(timeoutCount)
    /\ timeoutCount' = timeoutCount + 1
    /\ \E r \in Send(store, Request("HeadBucket", bucketName, ""), faults) :
         /\ Reply(Request("HeadBucket", bucketName, ""), r)
         /\ pollResults' = Append(pollResults, IF r.out.ok THEN "ok" ELSE "failed")
         /\ bucketHeadSucceeded' =
               (IF AbsentObserved(r.out) THEN FALSE ELSE bucketHeadSucceeded)
         /\ pc' = IF AbsentObserved(r.out) THEN "T1_AssertAbsent" ELSE pc
    /\ UNCHANGED << stack, test, fixtureIdx, bucketName, objectKey, retval,
                    toDelete, asserts, db, getObjectOutcome, foundBucket,
                    t3Vars >>
    /\ UNCHANGED resultVars

T1_PollExhausted ==
    /\ pc = "T1_PollAbsent"
    /\ ~WaitLoopContinues(timeoutCount)
    /\ timeoutCount' = timeoutCount + 1
    /\ pc' = "T1_AssertAbsent"
    /\ UNCHANGED << storeVars, stack, test, fixtureIdx, bucketName, objectKey,
                    retval, pollResults, toDelete, outcome, asserts, db,
                    getObjectOutcome, t1Vars, t3Vars >>
    /\ UNCHANGED resultVars

T1_AssertAbsent ==
    /\ pc = "T1_AssertAbsent"
    /\ Continue(IF bucketHeadSucceeded THEN 314 ELSE 0, "TestEnd")
    /\ timeoutCount' = 0
    /\ pollResults' = << >>
    /\ UNCHANGED << storeVars, stack, test, fixtureIdx, bucketName, objectKey,
                    retval, toDelete, outcome, db, getObjectOutcome, t1Vars,
                    t3Vars >>
    /\ UNCHANGED resultVars

(***************************************************************************)
(* TEST_F(BucketAndObjectOperationTest, TestObjectOperations)              *)
(***************************************************************************)
T2_CreateBucket ==
    /\ CreateBucketAndWait("T2_CreateBucket", 326, 328, "T2_PutObject")
    /\ UNCHANGED resultVars

\* *objectStream << "Test Object"; SetBody; SetContentLength(tellp())
\* Faulty variant: only "Test" is written.
PutObjectBodyTruncated == SubSeq(TestObjectBody, 1, 4)
PutObjectBody == TestObjectBody

\* SetContentMD5(Base64Encode(CalculateMD5(*putObjectRequest.GetBody())))
PutObjectContentMD5 == Base64Encode(CalculateMD5(PutObjectBody))

PutObjectRequest ==
    [ Request("PutObject", bucketName, TEST_OBJ_KEY) EXCEPT
        !.body = PutObjectBody, !.contentMD5 = PutObjectContentMD5 ]

T2_PutObject ==
    /\ pc = "T2_PutObject"
    /\ \E r \in Send(store, PutObjectRequest, faults) :
         /\ Reply(PutObjectRequest, r)
         /\ ContinueWait(
              FirstFailed(<< << ~r.out.ok, 345 >>,
                             << QuotedHex(CalculateMD5(PutObjectBody)) # r.out.etag,
                                350 >> >>),
              "WaitForObjectToPropagate", "T2_ListObjects", TEST_OBJ_KEY)
    /\ UNCHANGED << test, fixtureIdx, bucketName, retval, toDelete, db,
                    getObjectOutcome, t1Vars, t3Vars >>
    /\ UNCHANGED resultVars

T2_ListObjects ==
    /\ pc = "T2_ListObjects"
    /\ \E r \in Send(store, Request("ListObjects", bucketName, ""), faults) :
         /\ Reply(Request("ListObjects", bucketName, ""), r)
         /\ ContinueWait(IF r.out.ok THEN 0 ELSE 358, "WaitForObjectToPropagate",
                         "T2_AssertObjectPropagated", TEST_OBJ_KEY)
    /\ UNCHANGED << test, fixtureIdx, bucketName, retval, toDelete, db,
                    getObjectOutcome, t1Vars, t3Vars >>
    /\ UNCHANGED resultVars

\* ASSERT_TRUE(WaitForObjectToPropagate(fullBucketName, TEST_OBJ_KEY))
ObjectPropagated(result) == result

T2_AssertObjectPropagated ==
    /\ pc = "T2_AssertObjectPropagated"
    /\ Continue(IF ObjectPropagated(retval) THEN 0 ELSE 359, "T2_GetObject")
    /\ retval' = FALSE
    /\ UNCHANGED << storeVars, stack, test, fixtureIdx, bucketName, objectKey,
                    timeoutCount, pollResults, toDelete, outcome, db,
                    getObjectOutcome, t1Vars, t3Vars >>
    /\ UNCHANGED resultVars

T2_GetObject ==
    /\ pc = "T2_GetObject"
    /\ \E r \in Send(store, Request("GetObject", bucketName, TEST_OBJ_KEY), faults) :
         /\ Reply(Request("GetObject", bucketName, TEST_OBJ_KEY), r)
         /\ getObjectOutcome' = r.out
         /\ Continue(FirstFailed(<< << ~r.out.ok, 366 >>,
                                    << TestObjectBody # r.out.body, 369 >> >>),
                     "T2_HeadObject")
    /\ UNCHANGED << stack, test, fixtureIdx, helperVars, db, t1Vars, t3Vars >>
    /\ UNCHANGED resultVars

\* The entity tag compared at line 381 is the one of getObjectOutcome.
T2_HeadObject ==
    /\ pc = "T2_HeadObject"
    /\ \E r \in Send(store, Request("HeadObject", bucketName, TEST_OBJ_KEY), faults) :
         /\ Reply(Request("HeadObject", bucketName, TEST_OBJ_KEY), r)
         /\ Continue(
              FirstFailed(<< << ~r.out.ok, 376 >>,
                             << QuotedHex(CalculateMD5(PutObjectBody))
                                  # getObjectOutcome.etag, 381 >> >>),
              "T2_DeleteObject")
    /\ UNCHANGED << stack, test, fixtureIdx, helperVars, db, getObjectOutcome,
                    t1Vars, t3Vars >>
    /\ UNCHANGED resultVars

T2_DeleteObject ==
    /\ pc = "T2_DeleteObject"
    /\ \E r \in Send(store, Request("DeleteObject", bucketName, TEST_OBJ_KEY), faults) :
         /\ Reply(Request("DeleteObject", bucketName, TEST_OBJ_KEY), r)
         /\ ContinueWait(IF r.out.ok THEN 0 ELSE 387, "WaitForBucketToEmpty",
                         "T2_HeadObjectAgain", "")
    /\ UNCHANGED << test, fixtureIdx, bucketName, retval, toDelete, db,
                    getObjectOutcome, t1Vars, t3Vars >>
    /\ UNCHANGED resultVars

T2_HeadObjectAgain ==
    /\ pc = "T2_HeadObjectAgain"
    /\ \E r \in Send(store, Request("HeadObject", bucketName, TEST_OBJ_KEY), faults) :
         /\ Reply(Request("HeadObject", bucketName, TEST_OBJ_KEY), r)
         /\ Continue(IF r.out.ok THEN 392 ELSE 0, "TestEnd")
    /\ UNCHANGED << stack, test, fixtureIdx, helperVars, db, getObjectOutcome,
                    t1Vars, t3Vars >>
    /\ UNCHANGED resultVars

(***************************************************************************)
(* TEST_F(BucketAndObjectOperationTest, TestMultiPartObjectOperations)     *)
(***************************************************************************)
T3_CreateBucket ==
    /\ CreateBucketAndWait("T3_CreateBucket", 404, 406, "T3_CreateMultipartUpload")
    /\ UNCHANGED resultVars

T3_CreateMultipartUpload ==
    /\ pc = "T3_CreateMultipartUpload"
    /\ \E r \in Send(store, Request("CreateMultipartUpload", bucketName,
                                    multipartKeyName), faults) :
         /\ Reply(Request("CreateMultipartUpload", bucketName, multipartKeyName), r)
         /\ uploadId' = r.out.uploadId
         /\ Continue(IF r.out.ok THEN 0 ELSE 417, "T3_Submit1")
    /\ mpLog' = << >>
    /\ UNCHANGED << stack, test, fixtureIdx, helperVars, db, getObjectOutcome,
                    t1Vars, callable, uploadPartOutcome, completedPart,
                    doneOrder, file, fileContents >>
    /\ UNCHANGED resultVars

SubmitLabel == << "T3_Submit1", "T3_Submit2", "T3_Submit3" >>
GetLabel == << "T3_Get1", "T3_Get2", "T3_Get3" >>
VerifyLabel == << "T3_Verify1", "T3_Verify2", "T3_Verify3" >>

\* uploadPart1Request.SetContentMD5(HashingUtils::Base64Encode(md5OfStream))
\* Faulty variant: the request carries no Content-MD5.
UploadPartContentMD5Omitted(md5OfStream) == << >>
UploadPartContentMD5(md5OfStream) == Base64Encode(md5OfStream)

\* MakeUploadPartOutcomeAndGetCallable: the request of one part.
UploadPartRequest(partNumber, md5OfStream, partStream, bucket, objectName, id) ==
    [ Request("UploadPart", bucket, objectName) EXCEPT
        !.partNumber = partNumber,
        !.uploadId = id,
        !.body = partStream,
        !.contentMD5 = UploadPartContentMD5(md5OfStream) ]

\* What follows the making of the callable of part n: the next part is
\* submitted; after the last one the first callable is waited for.
\* Faulty variant: every callable is waited for before the next part is
\* submitted.
AfterSubmitAwaits(n) == GetLabel[n]
AfterSubmit(n) == IF n < 3 THEN SubmitLabel[n + 1] ELSE GetLabel[1]

\* What follows uploadPartOutcomeCallableN.get(): the next get(); after the
\* last one the verification of the first outcome.
\* Faulty variant: only the first callable is waited for.
AfterGetSkipsTheRest(n) == VerifyLabel[1]
AfterGet(n) == IF n < 3 THEN GetLabel[n + 1] ELSE VerifyLabel[1]

\* partNStream, partNMd5 and MakeUploadPartOutcomeAndGetCallable(N, ...): the
\* request is handed to the executor, the callable is returned at once.
T3_Submit(n) ==
    /\ pc = SubmitLabel[n]
    /\ callable' = [ callable EXCEPT ![n] =
          [ state |-> "pending",
            req |-> UploadPartRequest(n,
                      CalculateMD5(Create5MbStreamForUploadPart(n)),
                      Create5MbStreamForUploadPart(n), bucketName,
                      multipartKeyName, uploadId),
            out |-> NoOutcome ] ]
    /\ mpLog' = Append(mpLog, << "submit", n >>)
    /\ pc' = AfterSubmit(n)
    /\ UNCHANGED << storeVars, stack, test, fixtureIdx, helperVars, outcome,
                    asserts, db, getObjectOutcome, t1Vars, uploadId,
                    uploadPartOutcome, completedPart, doneOrder, file,
                    fileContents >>
    /\ UNCHANGED resultVars

\* A thread of the executor runs the upload of part n.
UploadPartTask(n) ==
    /\ callable[n].state = "pending"
    /\ \E r \in Send(store, callable[n].req, faults) :
         /\ store' = r.store
         /\ faults' = r.faults
         /\ last' = Met(store, callable[n].req, r)
         /\ callable' = [ callable EXCEPT ![n].state = "ready", ![n].out = r.out ]
    /\ doneOrder' = Append(doneOrder, n)
    /\ UNCHANGED << ctlVars, helperVars, outcome, asserts, db, getObjectOutcome,
                    t1Vars, uploadId, uploadPartOutcome, completedPart, mpLog,
                    file, fileContents >>
    /\ UNCHANGED resultVars

\* uploadPartOutcomeN = uploadPartOutcomeCallableN.get(): blocks until ready.
T3_Get(n) ==
    /\ pc = GetLabel[n]
    /\ callable[n].state = "ready"
    /\ uploadPartOutcome' = [ uploadPartOutcome EXCEPT ![n] = callable[n].out ]
    /\ callable' = [ callable EXCEPT ![n].state = "taken" ]
    /\ mpLog' = Append(mpLog, << "get", n >>)
    /\ pc' = AfterGet(n)
    /\ UNCHANGED << storeVars, stack, test, fixtureIdx, helperVars, outcome,
                    asserts, db, getObjectOutcome, t1Vars, uploadId,
                    completedPart, doneOrder, file, fileContents >>
    /\ UNCHANGED resultVars

\* VerifyUploadPartOutcome: the line of the ASSERT_ that fails, or 0.  A
\* failed ASSERT_ returns from VerifyUploadPartOutcome only.
VerifyUploadPartOutcome(partOutcome, md5OfStream) ==
    FirstFailed(<< << ~partOutcome.ok, 145 >>,
                   << QuotedHex(md5OfStream) # partOutcome.etag, 148 >> >>)

\* What the failed ASSERT_ of VerifyUploadPartOutcome reports besides its
\* line: ASSERT_TRUE the expression that was false, ASSERT_EQ the two strings
\* that differ.  The helper is given no part number.
VerifyFailureMessage(line, partOutcome, md5OfStream) ==
    IF line = 145 THEN << "outcome.IsSuccess()", << >>, << >> >>
    ELSE << "ss.str() == outcome.GetResult().GetETag()",
            QuotedHex(md5OfStream), partOutcome.etag >>

\* VerifyUploadPartOutcome(uploadPartOutcomeN, partNMd5), then
\* completedPartN.SetETag(uploadPartOutcomeN.GetResult().GetETag()).
T3_Verify(n) ==
    /\ pc = VerifyLabel[n]
    /\ LET line == VerifyUploadPartOutcome(uploadPartOutcome[n],
                     CalculateMD5(Create5MbStreamForUploadPart(n)))
       IN /\ asserts' = IF line = 0 THEN asserts ELSE asserts \cup { line }
          /\ mpLog' = Append(mpLog, << IF line = 0 THEN "verified" ELSE "rejected",
                                       n >>)
    /\ completedPart' = [ completedPart EXCEPT ![n] = uploadPartOutcome[n].etag ]
    /\ pc' = IF n < 3 THEN VerifyLabel[n + 1] ELSE "T3_Complete"
    /\ UNCHANGED << storeVars, stack, test, fixtureIdx, helperVars, outcome, db,
                    getObjectOutcome, t1Vars, uploadId, callable,
                    uploadPartOutcome, doneOrder, file, fileContents >>
    /\ UNCHANGED resultVars

\* completedMultipartUpload.AddParts(completedPart1); ...2; ...3
\* Faulty variant: the first two parts are added in the wrong order.
AddPartsOrderSwapped == << 2, 1, 3 >>
AddPartsOrder == << 1, 2, 3 >>

\* Faulty variant: the parts are added in the order their uploads finished.
CompletedMultipartUploadAsFinished ==
    [ i \in 1..Len(doneOrder) |->
        [ partNumber |-> doneOrder[i], etag |-> completedPart[doneOrder[i]] ] ]

CompletedMultipartUpload ==
    [ i \in 1..Len(AddPartsOrder) |->
        [ partNumber |-> AddPartsOrder[i],
          etag |-> completedPart[AddPartsOrder[i]] ] ]

CompleteRequest ==
    [ Request("CompleteMultipartUpload", bucketName, multipartKeyName) EXCEPT
        !.uploadId = uploadId, !.manifest = CompletedMultipartUpload ]

\* Faulty variant: a CompleteMultipartUpload that failed is sent again.
T3_CompleteRetrying ==
    /\ pc = "T3_Complete"
    /\ \E r \in Send(store, CompleteRequest, faults) :
         /\ Reply(CompleteRequest, r)
         /\ asserts' = asserts
         /\ IF r.out.ok
            THEN CallWait("WaitForObjectToPropagate", "T3_GetObject",
                          multipartKeyName)
            ELSE /\ pc' = pc
                 /\ UNCHANGED << stack, timeoutCount, pollResults, objectKey >>
    /\ mpLog' = Append(mpLog, << "complete", 0 >>)
    /\ UNCHANGED << test, fixtureIdx, bucketName, retval, toDelete, db,
                    getObjectOutcome, t1Vars, uploadId, callable,
                    uploadPartOutcome, completedPart, doneOrder, file,
                    fileContents >>
    /\ UNCHANGED resultVars

T3_Complete ==
    /\ pc = "T3_Complete"
    /\ \E r \in Send(store, CompleteRequest, faults) :
         /\ Reply(CompleteRequest, r)
         /\ ContinueWait(IF r.out.ok THEN 0 ELSE 474, "WaitForObjectToPropagate",
                         "T3_GetObject", multipartKeyName)
    /\ mpLog' = Append(mpLog, << "complete", 0 >>)
    /\ UNCHANGED << test, fixtureIdx, bucketName, retval, toDelete, db,
                    getObjectOutcome, t1Vars, uploadId, callable,
                    uploadPartOutcome, completedPart, doneOrder, file,
                    fileContents >>
    /\ UNCHANGED resultVars

\* expectedStreamValue << part1Stream->rdbuf() << part2Stream->rdbuf() << ...
ExpectedStreamValue ==
    Create5MbStreamForUploadPart(1) \o Create5MbStreamForUploadPart(2)
      \o Create5MbStreamForUploadPart(3)

T3_GetObject ==
    /\ pc = "T3_GetObject"
    /\ \E r \in Send(store, Request("GetObject", bucketName, multipartKeyName),
                     faults) :
         /\ Reply(Request("GetObject", bucketName, multipartKeyName), r)
         /\ getObjectOutcome' = r.out
         /\ Continue(FirstFailed(<< << ~r.out.ok, 483 >>,
                                    << ExpectedStreamValue # r.out.body, 493 >> >>),
                     "T3_GetObjectToFile")
    /\ UNCHANGED << stack, test, fixtureIdx, helperVars, db, t1Vars, t3Vars >>
    /\ UNCHANGED resultVars

(***************************************************************************)
(* The download to a file.  Both streams are opened in text mode: on       *)
(* _WIN32 a stream in text mode writes "\n" as "\r\n" and reads it back,   *)
(* and ends the input at Ctrl-Z; the block is left out on __ANDROID__.     *)
(***************************************************************************)
Platforms == { "posix", "_WIN32", "__ANDROID__" }

\* Writing s[lo..hi] in text mode: "\n" becomes "\r\n".
RECURSIVE CrLfOut(_, _, _)
CrLfOut(s, lo, hi) ==
    IF lo > hi THEN << >>
    ELSE IF lo = hi THEN (IF s[lo] = 10 THEN << 13, 10 >> ELSE << s[lo] >>)
    ELSE CrLfOut(s, lo, (lo + hi) \div 2) \o CrLfOut(s, (lo + hi) \div 2 + 1, hi)

\* Reading s[lo..hi] in text mode: a "\r" that a "\n" follows is dropped.
RECURSIVE CrLfIn(_, _, _)
CrLfIn(s, lo, hi) ==
    IF lo > hi THEN << >>
    ELSE IF lo = hi
    THEN (IF s[lo] = 13 /\ lo < Len(s) /\ s[lo + 1] = 10 THEN << >> ELSE << s[lo] >>)
    ELSE CrLfIn(s, lo, (lo + hi) \div 2) \o CrLfIn(s, (lo + hi) \div 2 + 1, hi)

\* The bytes before the first Ctrl-Z.
BeforeCtrlZ(s) ==
    LET z == { i \in 1..Len(s) : s[i] = 26 }
    IN IF z = {} THEN s
       ELSE SubSeq(s, 1, (CHOOSE i \in z : \A j \in z : i <= j) - 1)

TextModeWrite(platform, bytes) ==
    IF platform = "_WIN32" THEN CrLfOut(bytes, 1, Len(bytes)) ELSE bytes

TextModeRead(platform, bytes) ==
    IF platform = "_WIN32"
    THEN CrLfIn(BeforeCtrlZ(bytes), 1, Len(BeforeCtrlZ(bytes)))
    ELSE bytes

\* Aws::New<Aws::FStream>(ALLOCATION_TAG, DOWNLOADED_FILENAME, std::ios_base::out)
\* and the body written into it.
ResponseStreamFactory(platform, body) ==
    [ exists |-> TRUE, platform |-> platform, data |-> TextModeWrite(platform, body) ]

\* Aws::IFStream downloadedFile(DOWNLOADED_FILENAME); fileContents.assign(...)
\* Faulty variant: the file is read back as it is on disk.
ReadDownloadedFileBinary(f) == f.data
ReadDownloadedFile(f) == TextModeRead(f.platform, f.data)

\* std::remove; the second GetObject, with the response stream factory.  The
\* factory makes the file when the client asks for the stream, and the body
\* of a successful response is written to it.
T3_GetObjectToFile ==
    /\ pc = "T3_GetObjectToFile"
    /\ \E platform \in Platforms :
         IF platform = "__ANDROID__"
         THEN /\ pc' = "T3_DeleteObject"
              /\ UNCHANGED << storeVars, outcome, asserts, file >>
         ELSE \E r \in Send(store, Request("GetObject", bucketName,
                                           multipartKeyName), faults) :
                /\ Reply(Request("GetObject", bucketName, multipartKeyName), r)
                /\ file' = ResponseStreamFactory(platform, r.out.body)
                /\ Continue(IF r.out.ok THEN 0 ELSE 509, "T3_ReadFile")
    /\ UNCHANGED << stack, test, fixtureIdx, helperVars, db, getObjectOutcome,
                    t1Vars, uploadId, callable, uploadPartOutcome,
                    completedPart, mpLog, doneOrder, fileContents >>
    /\ UNCHANGED resultVars

\* The file is read back, removed, and compared with the expected value.
T3_ReadFile ==
    /\ pc = "T3_ReadFile"
    /\ fileContents' = IF file.exists THEN ReadDownloadedFile(file) ELSE << >>
    /\ file' = NoFile
    /\ Continue(FirstFailed(<< << ~file.exists, 514 >>,
                               << ExpectedStreamValue
                                    # (IF file.exists THEN ReadDownloadedFile(file)
                                       ELSE << >>), 526 >> >>),
                "T3_DeleteObject")
    /\ UNCHANGED << storeVars, stack, test, fixtureIdx, helperVars, outcome, db,
                    getObjectOutcome, t1Vars, uploadId, callable,
                    uploadPartOutcome, completedPart, mpLog, doneOrder >>
    /\ UNCHANGED resultVars

T3_DeleteObject ==
    /\ pc = "T3_DeleteObject"
    /\ \E r \in Send(store, Request("DeleteObject", bucketName, multipartKeyName),
                     faults) :
         /\ Reply(Request("DeleteObject", bucketName, multipartKeyName), r)
         /\ Continue(IF r.out.ok THEN 0 ELSE 536, "TestEnd")
    /\ UNCHANGED << stack, test, fixtureIdx, helperVars, db, getObjectOutcome,
                    t1Vars, t3Vars >>
    /\ UNCHANGED resultVars

(***************************************************************************)
(* TEST_F(BucketAndObjectOperationTest, TestThatErrorsParse)               *)
(***************************************************************************)
T4_ListObjects ==
    /\ pc = "T4_ListObjects"
    /\ \E r \in Send(store, Request("ListObjects", NonExistentBucket, ""), faults) :
         /\ Reply(Request("ListObjects", NonExistentBucket, ""), r)
         /\ Continue(FirstFailed(<< << r.out.ok, 547 >>,
                                    << r.out.err # "NO_SUCH_BUCKET", 548 >> >>),
                     "T4_CreateBucket")
    /\ UNCHANGED << stack, test, fixtureIdx, helperVars, db, getObjectOutcome,
                    t1Vars, t3Vars >>
    /\ UNCHANGED resultVars

\* No location check in this body.
T4_CreateBucket ==
    /\ pc = "T4_CreateBucket"
    /\ \E r \in Send(store, Request("CreateBucket", bucketName, ""), faults) :
         /\ Reply(Request("CreateBucket", bucketName, ""), r)
         /\ ContinueWait(IF r.out.ok THEN 0 ELSE 554, "WaitForBucketToPropagate",
                         "T4_GetObject", "")
    /\ UNCHANGED << test, fixtureIdx, bucketName, retval, toDelete, db,
                    getObjectOutcome, t1Vars, t3Vars >>
    /\ UNCHANGED resultVars

T4_GetObject ==
    /\ pc = "T4_GetObject"
    /\ \E r \in Send(store, Request("GetObject", bucketName, NonExistentKey),
                     faults) :
         /\ Reply(Request("GetObject", bucketName, NonExistentKey), r)
         /\ getObjectOutcome' = r.out
         /\ Continue(FirstFailed(<< << r.out.ok, 561 >>,
                                    << r.out.err # "NO_SUCH_KEY", 562 >> >>),
                     "TestEnd")
    /\ UNCHANGED << stack, test, fixtureIdx, helperVars, db, t1Vars, t3Vars >>
    /\ UNCHANGED resultVars

(***************************************************************************)
(* The run.                                                                *)
(***************************************************************************)
Next ==
    \/ Propagate
    \/ FixtureDeleteBucket
    \/ SetUpTestCaseDone
    \/ TearDownTestCaseDone
    \/ DeleteBucketHead
    \/ EmptyBucketList
    \/ EmptyBucketDelete
    \/ EmptyBucketReturn
    \/ WaitForBucketToEmptyPoll
    \/ WaitForBucketToEmptyExhausted
    \/ WaitForBucketToEmptyReturn
    \/ DeleteBucketRequest
    \/ DeleteBucketReturn
    \/ WaitPoll
    \/ WaitExhausted
    \/ WaitReturn
    \/ TestBegin
    \/ TestEnd
    \/ T1_HeadBucket
    \/ T1_CreateBucket
    \/ T1_AssertPropagated
    \/ T1_ListBuckets
    \/ T1_DeleteBucket
    \/ T1_HeadBucketAgain
    \/ T1_PollAbsent
    \/ T1_PollExhausted
    \/ T1_AssertAbsent
    \/ T2_CreateBucket
    \/ T2_PutObject
    \/ T2_ListObjects
    \/ T2_AssertObjectPropagated
    \/ T2_GetObject
    \/ T2_HeadObject
    \/ T2_DeleteObject
    \/ T2_HeadObjectAgain
    \/ T3_CreateBucket
    \/ T3_CreateMultipartUpload
    \/ \E n \in PartNumbers : T3_Submit(n)
    \/ \E n \in PartNumbers : UploadPartTask(n)
    \/ \E n \in PartNumbers : T3_Get(n)
    \/ \E n \in PartNumbers : T3_Verify(n)
    \/ T3_Complete
    \/ T3_GetObject
    \/ T3_GetObjectToFile
    \/ T3_ReadFile
    \/ T3_DeleteObject
    \/ T4_ListObjects
    \/ T4_CreateBucket
    \/ T4_GetObject

Spec == Init /\ [][Next]_vars

\* The main thread goes on running while it is inside DeleteBucket: every
\* request it sends there returns with an outcome.
DeleteBucketStep ==
    \/ DeleteBucketHead
    \/ EmptyBucketList
    \/ EmptyBucketDelete
    \/ EmptyBucketReturn
    \/ WaitForBucketToEmptyPoll
    \/ WaitForBucketToEmptyExhausted
    \/ WaitForBucketToEmptyReturn
    \/ DeleteBucketRequest
    \/ DeleteBucketReturn

FairSpec == Spec /\ WF_vars(DeleteBucketStep)

(***************************************************************************)
(* The result objects: construction and assignment of service results.     *)
(***************************************************************************)
Assigned(before, jsonValue, constructed) ==
    [ done |-> TRUE, before |-> before, payload |-> jsonValue,
      constructed |-> constructed ]

\* GetDocumentationPartResult x;
DocumentationPartConstruct ==
    /\ getDocumentationPartResult' = DefaultGetDocumentationPartResult
    /\ assignedDocumentationPart' = NoAssignment
    /\ UNCHANGED << testVars, describeSubscriptionFiltersResult,
                    assignedSubscriptionFilters >>

\* GetDocumentationPartResult x(result);  *this = result
DocumentationPartConstructFrom ==
    /\ \E jsonValue \in DocumentationPartPayloads :
         /\ getDocumentationPartResult' =
                GetDocumentationPartResultAssign(
                    DefaultGetDocumentationPartResult, jsonValue)
         /\ assignedDocumentationPart' =
                Assigned(DefaultGetDocumentationPartResult, jsonValue, TRUE)
    /\ UNCHANGED << testVars, describeSubscriptionFiltersResult,
                    assignedSubscriptionFilters >>

\* x = result;
DocumentationPartAssign ==
    /\ \E jsonValue \in DocumentationPartPayloads :
         /\ getDocumentationPartResult' =
                GetDocumentationPartResultAssign(getDocumentationPartResult,
                                                 jsonValue)
         /\ assignedDocumentationPart' =
                Assigned(getDocumentationPartResult, jsonValue, FALSE)
    /\ UNCHANGED << testVars, describeSubscriptionFiltersResult,
                    assignedSubscriptionFilters >>

DocumentationPartNext ==
    \/ DocumentationPartConstruct
    \/ DocumentationPartConstructFrom
    \/ DocumentationPartAssign

DocumentationPartSpec == Init /\ [][DocumentationPartNext]_vars

\* DescribeSubscriptionFiltersResult x;
SubscriptionFiltersConstruct ==
    /\ describeSubscriptionFiltersResult' =
           DefaultDescribeSubscriptionFiltersResult
    /\ assignedSubscriptionFilters' = NoAssignment
    /\ UNCHANGED << testVars, getDocumentationPartResult,
                    assignedDocumentationPart >>

\* DescribeSubscriptionFiltersResult x(result);  *this = result
SubscriptionFiltersConstructFrom ==
    /\ \E jsonValue \in SubscriptionFiltersPayloads :
         /\ describeSubscriptionFiltersResult' =
                DescribeSubscriptionFiltersResultAssign(
                    DefaultDescribeSubscriptionFiltersResult, jsonValue)
         /\ assignedSubscriptionFilters' =
                Assigned(DefaultDescribeSubscriptionFiltersResult, jsonValue,
                         TRUE)
    /\ UNCHANGED << testVars, getDocumentationPartResult,
                    assignedDocumentationPart >>

\* x = result;  (the list is let grow to MaxFilters elements)
SubscriptionFiltersAssign ==
    /\ \E jsonValue \in SubscriptionFiltersPayloads :
         /\ Len(DescribeSubscriptionFiltersResultAssign(
                    describeSubscriptionFiltersResult,
                    jsonValue).m_subscriptionFilters) <= MaxFilters
         /\ describeSubscriptionFiltersResult' =
                DescribeSubscriptionFiltersResultAssign(
                    describeSubscriptionFiltersResult, jsonValue)
         /\ assignedSubscriptionFilters' =
                Assigned(describeSubscriptionFiltersResult, jsonValue, FALSE)
    /\ UNCHANGED << testVars, getDocumentationPartResult,
                    assignedDocumentationPart >>

SubscriptionFiltersNext ==
    \/ SubscriptionFiltersConstruct
    \/ SubscriptionFiltersConstructFrom
    \/ SubscriptionFiltersAssign

SubscriptionFiltersSpec == Init /\ [][SubscriptionFiltersNext]_vars

(***************************************************************************)
(* Properties.                                                             *)
(***************************************************************************)

\* C1: when the three parts were uploaded concurrently and the upload was
\* completed with the manifest in the order 1, 2, 3, a later GetObject of
\* the key returns the payloads of the parts concatenated in the order
\* 1, 2, 3, whatever the order in which the uploads finished.
MultipartObjectIsPartsInOrder ==
    (test = 3 /\ getObjectOutcome.ok)
        => getObjectOutcome.body = ExpectedStreamValue

\* The object was fetched after the uploads had finished in the order 3, 1, 2.
MultipartFetchedAfterUnorderedUploads ==
    /\ test = 3
    /\ getObjectOutcome.ok
    /\ doneOrder = << 3, 1, 2 >>

\* C2: after a successful PutObject, a GetObject of the key that succeeds
\* returns exactly the bytes written ("Test Object"), and every HeadObject of
\* the key that succeeds reports the quoted hex checksum of those bytes.
PutGetHeadRoundTrip ==
    /\ (test = 2 /\ getObjectOutcome.ok)
          => getObjectOutcome.body = TestObjectBody
    /\ (test = 2 /\ last.op = "HeadObject" /\ last.out.ok)
          => last.out.etag = QuotedHex(CalculateMD5(TestObjectBody))

\* The object was put, fetched, and its head request has just succeeded.
PutGetHeadDone ==
    /\ test = 2
    /\ pc = "T2_DeleteObject"
    /\ getObjectOutcome.ok
    /\ last.op = "HeadObject"
    /\ last.out.ok

\* C3: a GetObject or HeadObject for a key that is not in a bucket that is
\* there is answered with a failure of type NO_SUCH_KEY, and a request (these
\* two, and ListObjects) against a bucket that is not there with a failure of
\* type NO_SUCH_BUCKET; success is reported in neither case, also when the
\* request is lost in transit.
MissingKeyAndBucketErrors ==
    /\ (/\ last.op \in { "GetObject", "HeadObject" }
        /\ last.bucketVisible
        /\ ~last.keyVisible)
          => /\ ~last.out.ok
             /\ last.fault = "none" => last.out.err = "NO_SUCH_KEY"
    /\ (/\ last.op \in { "GetObject", "HeadObject", "ListObjects" }
        /\ ~last.bucketVisible)
          => /\ ~last.out.ok
             /\ last.fault = "none" => last.out.err = "NO_SUCH_BUCKET"

\* TestThatErrorsParse passed: the listing of "Non-Existent" was answered
\* with NO_SUCH_BUCKET, the GetObject of "non-Existent" with NO_SUCH_KEY.
ErrorsParsed ==
    /\ test = 4
    /\ pc = "TestEnd"
    /\ asserts = {}
    /\ last.op = "GetObject"
    /\ last.bucketVisible
    /\ last.out.err = "NO_SUCH_KEY"

\* C4: the entity tag of every successful PutObject and of every successful
\* UploadPart is the double-quoted hex encoding of the checksum computed
\* locally over the payload that was submitted.
EntityTagIsQuotedHexOfLocalChecksum ==
    /\ (last.op = "PutObject" /\ last.out.ok)
          => last.out.etag = QuotedHex(CalculateMD5(PutObjectRequest.body))
    /\ \A n \in PartNumbers :
          (callable[n].state \in { "ready", "taken" } /\ callable[n].out.ok)
              => callable[n].out.etag
                    = QuotedHex(CalculateMD5(callable[n].req.body))

\* One part upload succeeded while another one, corrupted in transit, was
\* rejected by the store.
PartAcceptedBesideCorruptedPart ==
    \E n, m \in PartNumbers :
        /\ callable[n].state \in { "ready", "taken" }
        /\ callable[n].out.ok
        /\ callable[m].out.err = "BAD_DIGEST"

\* C5: when the head request of DeleteBucket fails, DeleteBucket sends no
\* listing, no object deletion and no bucket deletion, changes nothing the
\* store has committed and fails no assertion: run on a bucket that is not
\* there, any number of times, it leaves what it found.
DeleteBucketOfAbsentBucketIsNoOp ==
    (pc = "DeleteBucketReturn" /\ ~db.headOk)
        => /\ db.heads = 1
           /\ db.lists = 0
           /\ db.objectDeletes = 0
           /\ db.bucketDeletes = 0
           /\ pollResults = << >>
           /\ store.bktTruth = db.entry.bktTruth
           /\ store.objTruth = db.entry.objTruth
           /\ store.mpu = db.entry.mpu
           /\ asserts = {}

\* TearDownTestCase runs DeleteBucket on the bucket that the first test
\* created and deleted: the head request was answered NO_SUCH_BUCKET.
DeleteBucketFoundBucketAbsent ==
    /\ pc = "DeleteBucketReturn"
    /\ Head(stack) = "TearDownTestCase"
    /\ bucketName = FixtureBuckets[1]
    /\ ~db.headOk
    /\ outcome.err = "NO_SUCH_BUCKET"

\* C6, as stated: a DeleteBucket that has deleted the bucket then polls the
\* existence of the bucket (at least one head request after the deletion).
DeleteBucketPollsAfterDeleting ==
    (pc = "DeleteBucketReturn" /\ db.bucketDeletes > 0 /\ outcome.ok)
        => db.headsAfterDelete > 0

\* C6, amended: DeleteBucket sends one head request, first, and none after
\* its bucket deletion; it ends with the deletion, whose outcome it asserts.
DeleteBucketSendsOneHeadFirst ==
    db.active
        => /\ db.heads <= 1
           /\ db.headsAfterDelete = 0
           /\ db.bucketDeletes <= 1
           /\ (db.heads = 0) = (pc = "DeleteBucket")
           /\ (pc = "DeleteBucketReturn" /\ db.bucketDeletes = 1)
                 => (outcome.ok = (246 \notin asserts))

\* DeleteBucket returns after a successful deletion while requests still
\* see the bucket.
DeleteBucketReturnsWhileBucketVisible ==
    /\ pc = "DeleteBucketReturn"
    /\ db.bucketDeletes = 1
    /\ outcome.ok
    /\ store.bktView[bucketName]

\* C7: WaitForBucketToPropagate and WaitForObjectToPropagate send at most
\* TIMEOUT_MAX head requests; they return true at the first that succeeds,
\* sending none after it, and false exactly when TIMEOUT_MAX of them failed.
WaitForPropagationIsBounded ==
    pc \in { "WaitForBucketToPropagate", "WaitForObjectToPropagate", "WaitReturn" }
        => /\ Len(pollResults) <= TIMEOUT_MAX
           /\ timeoutCount <= TIMEOUT_MAX + 1
           /\ \A i \in 1..(Len(pollResults) - 1) : pollResults[i] = "failed"
           /\ pc # "WaitReturn"
                 => \A i \in 1..Len(pollResults) : pollResults[i] = "failed"
           /\ pc = "WaitReturn"
                 => /\ retval = (/\ pollResults # << >>
                                 /\ pollResults[Len(pollResults)] = "ok")
                    /\ (~retval) = (/\ Len(pollResults) = TIMEOUT_MAX
                                    /\ \A i \in 1..Len(pollResults) :
                                          pollResults[i] = "failed")

\* WaitForObjectToPropagate returns false after TIMEOUT_MAX failed requests.
WaitForObjectGaveUp ==
    /\ pc = "WaitReturn"
    /\ objectKey = TEST_OBJ_KEY
    /\ ~retval
    /\ Len(pollResults) = TIMEOUT_MAX

\* C8: in TestObjectOperations, after DeleteObject succeeded and
\* WaitForBucketToEmpty returned, the next HeadObject of the key fails: the
\* ASSERT_FALSE of line 392 never fails.
HeadObjectFailsAfterDelete ==
    (test = 2 /\ pc = "TestEnd" /\ last.op = "HeadObject" /\ 376 \notin asserts)
        => ~last.out.ok

BucketListedOncePropagated ==
    /\ 266 \notin asserts
    /\ (test = 1 /\ pc = "T1_CreateBucket") => ~last.out.ok
    /\ (test = 1 /\ last.op = "ListBuckets" /\ last.out.ok)
          => bucketName \in last.out.list

\* The bucket was created, waited for, and found in the list of buckets.
BucketFoundInList ==
    /\ test = 1
    /\ pc = "T1_DeleteBucket"
    /\ last.op = "ListBuckets"
    /\ foundBucket

NoCompleteAfterFailedVerification ==
    \A i, j \in 1..Len(mpLog) :
        (mpLog[i][1] = "rejected" /\ mpLog[j][1] = "complete") => j < i

\* C13: when the CompleteMultipartUpload request is sent, the part numbers of
\* its manifest are the part numbers whose upload outcome reported success.
ManifestIsTheSuccessfulParts ==
    (test = 3 /\ pc = "T3_Complete")
        => { CompletedMultipartUpload[i].partNumber :
                i \in 1..Len(CompletedMultipartUpload) }
              = { n \in PartNumbers : uploadPartOutcome[n].ok }

\* C14: every entity tag read from an upload outcome for the manifest (the
\* GetResult().GetETag() that follows the verification of the part) is read
\* from an outcome that reported success.
EntityTagsReadFromSuccessfulOutcomes ==
    \A i \in 1..Len(mpLog) :
        mpLog[i][1] \in { "verified", "rejected" }
            => uploadPartOutcome[mpLog[i][2]].ok

\* C15: the manifest sent with CompleteMultipartUpload lists the part
\* numbers 1, 2, 3 in ascending order, each once and each with the entity
\* tag set for that part, whatever the order in which the uploads finished.
ManifestAscendingAndContiguous ==
    (test = 3 /\ pc = "T3_Complete")
        => /\ Len(CompleteRequest.manifest) = Cardinality(PartNumbers)
           /\ \A i \in 1..Len(CompleteRequest.manifest) :
                 /\ CompleteRequest.manifest[i].partNumber = i
                 /\ CompleteRequest.manifest[i].etag = completedPart[i]

\* The request is about to be sent after the uploads finished in the order
\* 2, 3, 1.
CompleteAfterUploadsFinishedOutOfOrder ==
    /\ test = 3
    /\ pc = "T3_Complete"
    /\ doneOrder = << 2, 3, 1 >>

\* C16: all three part uploads are submitted before any callable is waited
\* for, every callable is waited for once, and CompleteMultipartUpload is
\* sent only after all three were waited for.
SubmitAllThenAwaitAllThenComplete ==
    \A i \in 1..Len(mpLog) :
        /\ mpLog[i][1] = "get"
              => /\ \A n \in PartNumbers :
                       \E j \in 1..(i - 1) : mpLog[j] = << "submit", n >>
                 /\ \A j \in 1..Len(mpLog) :
                       mpLog[j] = mpLog[i] => j = i
        /\ mpLog[i][1] = "complete"
              => \A n \in PartNumbers :
                    \E j \in 1..(i - 1) : mpLog[j] = << "get", n >>

\* The three uploads were submitted and none of them has finished: the main
\* thread is about to wait for the first.
AllSubmittedNoneFinished ==
    /\ test = 3
    /\ pc = "T3_Get1"
    /\ \A n \in PartNumbers : callable[n].state = "pending"
    /\ doneOrder = << >>

\* C17, as stated, its last part: the failure of a part upload is reported
\* in a way that identifies the part: what the failed verification of part n
\* reports is not what the same failure of another part would report.
FailureReportIdentifiesPart ==
    \A i \in 1..Len(mpLog) :
        mpLog[i][1] = "rejected"
            => LET n == mpLog[i][2]
                   md5(k) == CalculateMD5(Create5MbStreamForUploadPart(k))
                   line == VerifyUploadPartOutcome(uploadPartOutcome[n], md5(n))
               IN \A m \in PartNumbers \ { n } :
                     VerifyFailureMessage(line, uploadPartOutcome[n], md5(n))
                        # VerifyFailureMessage(line, uploadPartOutcome[n], md5(m))

\* C17, amended: whatever the outcomes of the part uploads, every part that
\* was submitted ran to its own outcome and its callable was waited for
\* before the first verification; a failed part leaves the failed assertion
\* of VerifyUploadPartOutcome (line 145 or 148) and nothing else.
SiblingsRunAndAreAwaited ==
    /\ (test = 3 /\ pc \in { VerifyLabel[n] : n \in PartNumbers } \cup { "T3_Complete" })
          => \A n \in PartNumbers :
                /\ callable[n].state = "taken"
                /\ uploadPartOutcome[n] = callable[n].out
                /\ \E i \in 1..Len(doneOrder) : doneOrder[i] = n
    /\ \A i \in 1..Len(mpLog) :
          mpLog[i][1] = "rejected"
              => /\ asserts \cap { 145, 148 } # {}
                 /\ pc \in { VerifyLabel[n] : n \in PartNumbers } \cup { "T3_Complete" }
                       => asserts \subseteq { 145, 148 }

\* Part 2 failed first; parts 1 and 3 ran after it and succeeded, and all
\* three outcomes were collected.
SiblingsSucceededAfterFailedPart ==
    /\ test = 3
    /\ pc = "T3_Verify1"
    /\ doneOrder[1] = 2
    /\ ~uploadPartOutcome[2].ok
    /\ uploadPartOutcome[1].ok
    /\ uploadPartOutcome[3].ok

\* C18, its last part: a multipart upload that was initiated is, when the
\* test body ends, either completed or aborted: the store holds no open
\* upload.
SessionEndsFinalizedOrAborted ==
    (test = 3 /\ pc = "TestEnd") => ~store.mpu.open

\* C19: when DeleteBucket is about to send its delete-bucket request, a
\* listing of the bucket has returned no objects and the bucket holds no
\* object.
DeleteBucketRequestOnlyOnEmptyBucket ==
    pc = "DeleteBucketRequest"
        => /\ db.emptySeen
           /\ \A k \in Keys : ~store.objTruth[bucketName][k].exists

\* C20: no part upload and no CompleteMultipartUpload is sent twice: every
\* part number is submitted once, its upload runs once, and the request to
\* complete is sent at most once, whatever the outcomes.
NoStoreCallIsRetried ==
    /\ \A i, j \in 1..Len(mpLog) :
          (mpLog[i][1] \in { "submit", "complete" } /\ mpLog[i] = mpLog[j])
              => i = j
    /\ \A i, j \in 1..Len(doneOrder) : doneOrder[i] = doneOrder[j] => i = j
    /\ \A n \in PartNumbers :
          callable[n].state # "none"
              => \E i \in 1..Len(mpLog) : mpLog[i] = << "submit", n >>

\* The request to complete failed, after the upload of part 3 had failed:
\* the body ended with neither of them sent again.
CompleteFailedAndWasNotRetried ==
    /\ test = 3
    /\ pc = "TestEnd"
    /\ 474 \in asserts
    /\ ~uploadPartOutcome[3].ok
    /\ mpLog[Len(mpLog)] = << "complete", 0 >>

\* C21: after a service result was assigned to a GetDocumentationPartResult,
\* each of id, location and properties holds the payload's value when the
\* payload has the key, and the value the object held before when it has
\* not.
AssignSetsPresentKeysAndKeepsTheRest ==
    assignedDocumentationPart.done
        => LET payload == assignedDocumentationPart.payload
               before == assignedDocumentationPart.before
               now == getDocumentationPartResult
           IN /\ now.m_id = IF "id" \in DOMAIN payload.value
                            THEN payload.value["id"].value ELSE before.m_id
              /\ now.m_properties =
                     IF "properties" \in DOMAIN payload.value
                     THEN payload.value["properties"].value
                     ELSE before.m_properties
              /\ IF "location" \in DOMAIN payload.value
                 THEN \A k \in DOMAIN payload.value["location"].value :
                         now.m_location[k] =
                             payload.value["location"].value[k].value
                 ELSE now.m_location = before.m_location

\* A payload with an id and no properties was assigned to an object that
\* held other values of both.
AssignedOverOtherValues ==
    /\ assignedDocumentationPart.done
    /\ ~assignedDocumentationPart.constructed
    /\ DOMAIN assignedDocumentationPart.payload.value = { "id" }
    /\ assignedDocumentationPart.before.m_properties = "{d}"
    /\ assignedDocumentationPart.before.m_location.type = "API"
    /\ assignedDocumentationPart.before.m_id = "p1"
    /\ getDocumentationPartResult.m_id = "p2"

\* C22: after a service result was assigned to a
\* DescribeSubscriptionFiltersResult, its list is the payload's
\* subscriptionFilters array, element for element and in order, whatever
\* the object held before.
FilterListIsThePayloadArray ==
    (/\ assignedSubscriptionFilters.done
     /\ "subscriptionFilters" \in DOMAIN assignedSubscriptionFilters.payload.value)
        => LET array == assignedSubscriptionFilters.payload
                            .value["subscriptionFilters"].value
               list == describeSubscriptionFiltersResult.m_subscriptionFilters
           IN /\ Len(list) = Len(array)
              /\ \A i \in 1..Len(array) :
                    list[i].filterName = array[i].value["filterName"].value

\* What one call of DeleteBucket has sent so far: at most one head request,
\* one listing by EmptyBucket and one delete for each object it listed (none
\* when the listing failed), at most TIMEOUT_MAX listings by
\* WaitForBucketToEmpty, of which only the last may be empty or failed, and
\* at most one delete-bucket request.
DeleteBucketRequestsBounded ==
    db.active
        => /\ db.heads <= 1
           /\ db.lists <= 1
           /\ db.bucketDeletes <= 1
           /\ db.objectDeletes <= db.listed
           /\ pc = "EmptyBucketLoop"
                 => /\ db.lists = 1
                    /\ db.objectDeletes + Len(toDelete) = db.listed
                    /\ \A i, j \in 1..Len(toDelete) :
                          toDelete[i] = toDelete[j] => i = j
                    /\ db.objectDeletes = 0
                          => /\ last.op = "ListObjects"
                             /\ ~last.out.ok => toDelete = << >>
           /\ pc \in { "DeleteBucketRequest", "DeleteBucketReturn" }
                 => db.lists = 0 \/ db.objectDeletes = db.listed
           /\ pc \in { "WaitForBucketToEmpty", "WaitForBucketToEmptyReturn" }
                 => /\ Len(pollResults) <= TIMEOUT_MAX
                    /\ \A i \in 1..(Len(pollResults) - 1) :
                          pollResults[i] = "objects"
                    /\ pc = "WaitForBucketToEmpty"
                          => \A i \in 1..Len(pollResults) :
                                pollResults[i] = "objects"
           /\ db.bucketDeletes = 1 => pc = "DeleteBucketReturn"

\* C23: DeleteBucket always terminates, whatever the store answers, and
\* sends no more than the requests counted above.
DeleteBucketTerminates ==
    /\ []DeleteBucketRequestsBounded
    /\ db.active ~> ~db.active

\* DeleteBucket deleted the objects it listed, never saw the bucket empty
\* in WaitForBucketToEmpty, sent its delete-bucket request and is returning.
DeleteBucketReturnsAfterFruitlessPolls ==
    /\ pc = "DeleteBucketReturn"
    /\ db.active
    /\ db.listed > 0
    /\ db.objectDeletes = db.listed
    /\ ~db.emptySeen
    /\ db.bucketDeletes = 1

====
